---- MODULE Spec2Model ----
(***************************************************************************)
(* Retrieval, response cache and generation orchestration of the          *)
(* mamaope_legal backend:                                                  *)
(*   services/conversational_service.py  (cache, generate_response)        *)
(*   services/vectordb_service.py        (MMR diversity reranker, search)  *)
(*   services/vectorstore_manager.py     (search_all_collections, enrich)  *)
(*   services/genai_client.py, main.py   (startup)                         *)
(*                                                                         *)
(* A Python str is a sequence of tokens.  A token is one character ("a",   *)
(* "A", " ", "|") or one literal of the source text that the code never    *)
(* takes apart (a message, a warning).  Times are minutes on the clock     *)
(* datetime.now() reads.  Similarities are hundredths (95 is 0.95).        *)
(***************************************************************************)
EXTENDS Integers, Sequences, FiniteSets, TLC

VARIABLES
    RESPONSE_CACHE,           \* the dict, as the sequence of its items in insertion order
    now,                      \* the clock read by datetime.now()
    vectorstore_initialized,  \* vectorstore_manager.vectorstore_initialized
    genai_client,             \* genai_client._genai_client is not None
    app,                      \* "starting" until lifespan reaches its yield, then "serving"
    pc,                       \* position of the generate_response call in flight
    args,                     \* its arguments query, chat_history, case_data
    locals,                   \* its local variables
    exit,                     \* how the function body was left: a return or a raise
    attempt,                  \* the retry decorator's attempt number
    result,                   \* what the caller of the decorated function got
    log,                      \* what the call in flight has done so far (history)
    cacheOp,                  \* the last two operations on the cache (history)
    rr,                       \* one application of the reranker: input, k, output
    sr,                       \* the last direct call of the store's functions (history)
    ck,                       \* two (query, case_data) pairs and their cache keys
    tasks,                    \* the generate_response coroutines of the requests in flight
    loop                      \* the task the event loop is running, 0 when it runs none

vars == <<RESPONSE_CACHE, now, vectorstore_initialized, genai_client, app, pc, args,
          locals, exit, attempt, result, log, cacheOp, rr, sr, ck, tasks, loop>>

-----------------------------------------------------------------------------
(* Program constants                                                       *)

PROMPT_TOKEN_LIMIT == 16000

CACHE_TTL_MINUTES == 60

MAX_CACHE_SIZE == 500

EVICT_COUNT == 20

STOP_AFTER_ATTEMPT == 3

RETRIEVAL_K == 6

MAX_CHUNKS == 3

OVERFETCH_FACTOR == 6

OVERFETCH_CAP == 50

MANAGER_FACTOR == 5

(* Bounds of the model                                                     *)

MaxTime == 60

MaxHits == 4

MaxK == 3

MaxSearchK == 3

MaxKeyLen == 2

MaxTasks == 2

-----------------------------------------------------------------------------
(* Python str operations                                                   *)

IsSpace(t) == t = " "

Lower(s) == [i \in 1..Len(s) |-> IF s[i] = "A" THEN "a" ELSE s[i]]

RECURSIVE LStrip(_)
LStrip(s) == IF s # <<>> /\ IsSpace(Head(s)) THEN LStrip(Tail(s)) ELSE s

RECURSIVE RStrip(_)
RStrip(s) == IF s # <<>> /\ IsSpace(s[Len(s)]) THEN RStrip(SubSeq(s, 1, Len(s) - 1)) ELSE s

Strip(s) == RStrip(LStrip(s))

\* Python's None and a value that is not None
None == [some |-> FALSE, val |-> <<>>]

Some(v) == [some |-> TRUE, val |-> v]

\* truth value of an Optional[str]: None and "" are false
Truthy(o) == o.some /\ o.val # <<>>

\* hashlib.md5(...).hexdigest(), taken as injective: the digest names its input
Md5Hex(s) == <<"md5">> \o s

-----------------------------------------------------------------------------
(* Response cache                                                          *)

\* key in RESPONSE_CACHE
HasKey(cache, key) == \E i \in 1..Len(cache) : cache[i].key = key

CacheIndex(cache, key) == CHOOSE i \in 1..Len(cache) : cache[i].key = key

\* del RESPONSE_CACHE[key]
CacheDelete(cache, key) == SelectSeq(cache, LAMBDA e : e.key # key)

\* (mutant) setdefault: a key already present keeps its old entry
CacheSetDefault(cache, key, response, timestamp) ==
    IF HasKey(cache, key) THEN cache
    ELSE Append(cache, [key |-> key, response |-> response, timestamp |-> timestamp])

\* RESPONSE_CACHE[key] = (response, timestamp): a key already present keeps its place
CacheSet(cache, key, response, timestamp) ==
    LET e == [key |-> key, response |-> response, timestamp |-> timestamp]
    IN  IF HasKey(cache, key)
        THEN [cache EXCEPT ![CacheIndex(cache, key)] = e]
        ELSE Append(cache, e)

_generate_cache_key(query, case_data) == Md5Hex(Strip(Lower(query \o <<"|">> \o case_data)))

\* (mutant) an entry exactly TTL old still counts as valid
NotExpiredInclusive(timestamp, t) == t - timestamp <= CACHE_TTL_MINUTES

\* datetime.now() - timestamp < timedelta(minutes=CACHE_TTL_MINUTES)
NotExpired(timestamp, t) == t - timestamp < CACHE_TTL_MINUTES

\* the value returned and the table left behind
_get_cached_response(cache, cache_key, t) ==
    IF HasKey(cache, cache_key)
    THEN LET e == cache[CacheIndex(cache, cache_key)]
         IN  IF NotExpired(e.timestamp, t)
             THEN [ret |-> Some(e.response), cache |-> cache]
             ELSE [ret |-> None, cache |-> CacheDelete(cache, cache_key)]
    ELSE [ret |-> None, cache |-> cache]

\* (mutant) the keys are taken in the order of insertion, whatever their timestamps
OldestIndexFirst(cache) == 1

\* sorted(RESPONSE_CACHE.keys(), key=timestamp)[0]: the sort is stable, so the first key
\* is the earliest item among those of the least timestamp
OldestIndex(cache) ==
    CHOOSE i \in 1..Len(cache) :
        \A j \in 1..Len(cache) :
            \/ cache[j].timestamp > cache[i].timestamp
            \/ cache[j].timestamp = cache[i].timestamp /\ j >= i

\* for key in sorted_keys[:20]: del RESPONSE_CACHE[key]
\* (the first n keys of the stable sort are the oldest, taken one after the other)
RECURSIVE RemoveOldest(_, _)
RemoveOldest(cache, n) ==
    IF n = 0 \/ cache = <<>> THEN cache
    ELSE LET i == OldestIndex(cache)
         IN  RemoveOldest(SubSeq(cache, 1, i - 1) \o SubSeq(cache, i + 1, Len(cache)), n - 1)

\* if len(RESPONSE_CACHE) > MAX_CACHE_SIZE: delete the 20 oldest
CacheCleanup(cache) ==
    IF Len(cache) > MAX_CACHE_SIZE THEN RemoveOldest(cache, EVICT_COUNT) ELSE cache

_cache_response(cache, cache_key, response, t) ==
    CacheCleanup(CacheSet(cache, cache_key, response, t))

-----------------------------------------------------------------------------
(* MMR diversity reranker (ZillizService._apply_mmr_diversity_reranking)   *)
(* A hit is [distance, file_path, content, page]; file_path is <<dir, base>> *)

Max(a, b) == IF a >= b THEN a ELSE b

Min(a, b) == IF a <= b THEN a ELSE b

\* source_counts.get(source, 0); source_counts is the sequence of <<source, count>>
CountOf(source_counts, src) ==
    IF \E i \in 1..Len(source_counts) : source_counts[i][1] = src
    THEN source_counts[CHOOSE i \in 1..Len(source_counts) : source_counts[i][1] = src][2]
    ELSE 0

SetCount(source_counts, src, n) ==
    IF \E i \in 1..Len(source_counts) : source_counts[i][1] = src
    THEN [i \in 1..Len(source_counts) |->
             IF source_counts[i][1] = src THEN <<src, n>> ELSE source_counts[i]]
    ELSE Append(source_counts, <<src, n>>)

\* (mutant) the hits stay in the order the index returned them
SortAsReturned(s) == s

\* remaining.sort(key=distance, reverse=True): stable, descending
RECURSIVE SortByDistanceDesc(_)
SortByDistanceDesc(s) ==
    IF s = <<>> THEN <<>>
    ELSE LET i == CHOOSE i \in 1..Len(s) :
                    \A j \in 1..Len(s) :
                        \/ s[j].distance < s[i].distance
                        \/ s[j].distance = s[i].distance /\ j >= i
         IN  <<s[i]>> \o SortByDistanceDesc(SubSeq(s, 1, i - 1) \o SubSeq(s, i + 1, Len(s)))

\* max_chunks_per_source = max(2, k // 4)
MaxChunksPerSource(k) == Max(2, k \div 4)

\* diversity_bonus, in hundredths
DiversityBonus(source_count) ==
    IF source_count = 0 THEN 150
    ELSE IF source_count = 1 THEN 100
    ELSE IF source_count = 2 THEN 50
    ELSE 20

\* mmr_score = 0.5 * relevance + 0.5 * diversity_bonus, doubled (in hundredths)
MmrScore(candidate, source_counts) ==
    candidate.distance + DiversityBonus(CountOf(source_counts, candidate.file_path))

\* (mutant) the hard limit is not applied
EligibleAlways(candidate, source_counts, k) == TRUE

\* the candidate is not skipped by "if source_count >= max_chunks_per_source: continue"
Eligible(candidate, source_counts, k) ==
    CountOf(source_counts, candidate.file_path) < MaxChunksPerSource(k)

\* best_idx of the for loop: the first index of the highest score, 0 when none is eligible
BestIdx(remaining, source_counts, k) ==
    LET ok == {i \in 1..Len(remaining) : Eligible(remaining[i], source_counts, k)}
    IN  IF ok = {} THEN 0
        ELSE CHOOSE i \in ok :
                \A j \in ok :
                    \/ MmrScore(remaining[j], source_counts) < MmrScore(remaining[i], source_counts)
                    \/ /\ MmrScore(remaining[j], source_counts) = MmrScore(remaining[i], source_counts)
                       /\ j >= i

\* the two statements source_counts[source_path] = source_counts.get(source_path, 0) + 1
\* that follow selected.append(selected_result)
CountAfterSelect(source_counts, src) ==
    LET c1 == SetCount(source_counts, src, CountOf(source_counts, src) + 1)
    IN  SetCount(c1, src, CountOf(c1, src) + 1)

\* (mutant) the selected candidate stays among the remaining ones
RemoveAtNothing(remaining, idx) == remaining

\* remaining.pop(idx)
RemoveAt(remaining, idx) ==
    SubSeq(remaining, 1, idx - 1) \o SubSeq(remaining, idx + 1, Len(remaining))

\* the while loop
RECURSIVE MmrLoop(_, _, _, _)
MmrLoop(selected, remaining, source_counts, k) ==
    IF ~(Len(selected) < k /\ remaining # <<>>) THEN selected
    ELSE LET b == BestIdx(remaining, source_counts, k)
         IN  IF b = 0 THEN selected
             ELSE MmrLoop(Append(selected, remaining[b]),
                          RemoveAt(remaining, b),
                          CountAfterSelect(source_counts, remaining[b].file_path),
                          k)

\* (mutant) the input is returned as it is only when it is shorter than k
NoRerankNeededShorter(search_results, k) == search_results = <<>> \/ Len(search_results) < k

\* if not search_results or len(search_results) <= k: return search_results
NoRerankNeeded(search_results, k) == search_results = <<>> \/ Len(search_results) <= k

\* result['score'] = result.get('distance', 0.0): the dict of the hit gains a key
WithScore(hit) ==
    [f \in DOMAIN hit \cup {"score"} |-> IF f = "score" THEN hit.distance ELSE hit[f]]

\* search_results as the call leaves it: the hits are scored in place
ScoredInPlace(search_results, k) ==
    IF NoRerankNeeded(search_results, k) THEN search_results
    ELSE [i \in 1..Len(search_results) |-> WithScore(search_results[i])]

_apply_mmr_diversity_reranking(search_results, k) ==
    IF NoRerankNeeded(search_results, k) THEN search_results
    ELSE LET sorted == SortByDistanceDesc(ScoredInPlace(search_results, k))
             first == Head(sorted)
         IN  MmrLoop(<<first>>, Tail(sorted), <<<<first.file_path, 1>>>>, k)

-----------------------------------------------------------------------------
(* Inputs of the reranker: hits as the vector index may return them.  The  *)
(* id is the primary key of the chunk; a cosine similarity may be negative. *)

Distances == {-60, 70, 95}

Paths == {<<"d1", "A.pdf">>, <<"d1", "B.pdf">>}

MkHit(id, distance, file_path) ==
    [id |-> id, distance |-> distance, file_path |-> file_path,
     content |-> <<"c">>, page |-> "7"]

\* every sequence of n hits with ids 1..n
HitSeqsOfLen(n) ==
    {[i \in 1..n |-> MkHit(i, f[i][1], f[i][2])] : f \in [1..n -> Distances \X Paths]}

HitSeqs == UNION {HitSeqsOfLen(n) : n \in 0..MaxHits}

\* one more hit than k = 12 and k = 16, where the cap is 3 and 4
WideHits(n, pathOf) == [i \in 1..n |-> MkHit(i, 95 - i, pathOf[i])]

WideInputs ==
    {[hits |-> WideHits(n, [i \in 1..n |-> IF i % m = 0 THEN <<"d1", "B.pdf">> ELSE <<"d1", "A.pdf">>]),
      k |-> n - 1] : n \in {13, 17}, m \in {2, 5, 20}}

\* similarities 0.9, 0.7, 0.95, 0.6 of the sources A, A, B, B
ExampleHits ==
    <<MkHit(1, 90, <<"d1", "A.pdf">>), MkHit(2, 70, <<"d1", "A.pdf">>),
      MkHit(3, 95, <<"d1", "B.pdf">>), MkHit(4, 60, <<"d1", "B.pdf">>)>>

\* hits is the argument as passed, after the same list when the call has returned
RrIdle == [phase |-> "idle", hits |-> <<>>, k |-> 0, out |-> <<>>, after |-> <<>>]

RrInputs ==
    {[phase |-> "input", hits |-> h, k |-> k, out |-> <<>>, after |-> <<>>] :
        h \in HitSeqs, k \in 1..MaxK}
    \cup {[phase |-> "input", hits |-> w.hits, k |-> w.k, out |-> <<>>, after |-> <<>>] :
             w \in WideInputs}
    \cup {[phase |-> "input", hits |-> ExampleHits, k |-> 3, out |-> <<>>, after |-> <<>>]}

-----------------------------------------------------------------------------
(* Retrieval: search_legal_knowledge, enrich_retrieval_results,            *)
(* search_all_collections.  An env record is what the embedding service    *)
(* and the vector index answer during one retrieval.                       *)

Basename(file_path) == file_path[2]

\* an exception: its class and str(e)
Exc(type, msg) == [type |-> type, msg |-> msg]

NoExc == Exc("", <<>>)

\* the first element of the tuple search_legal_knowledge returns is a str or a list
\* calls is the sequence of calls made to the embedding service and the index
TextResult(text, calls) ==
    [isList |-> FALSE, list |-> <<>>, text |-> text, sources |-> {}, calls |-> calls]

ListResult(list, sources, calls) ==
    [isList |-> TRUE, list |-> list, text |-> <<>>, sources |-> sources, calls |-> calls]

search_legal_knowledge(env, k) ==
    IF ~env.collection_exists
    THEN TextResult(<<"Collection not found. Please ensure it is created and named correctly.">>,
                    <<"has_collection">>)
    ELSE IF env.embed_error
    THEN TextResult(<<"An error occurred during search: ">> \o env.exc.msg,
                    <<"has_collection", "embed">>)
    ELSE IF env.search_error
    THEN TextResult(<<"An error occurred during search: ">> \o env.exc.msg,
                    <<"has_collection", "embed", "search">>)
    ELSE LET retrieve_k == Min(k * OVERFETCH_FACTOR, OVERFETCH_CAP)
             search_results == SubSeq(env.hits, 1, Min(Len(env.hits), retrieve_k))
             calls == <<"has_collection", "embed", "search">>
         IN  IF search_results = <<>>
             THEN TextResult(<<"No relevant legal information found in the knowledge base.">>,
                             calls)
             ELSE LET reranked == _apply_mmr_diversity_reranking(search_results, k)
                      entities == SelectSeq(reranked, LAMBDA h : h.content # <<>>)
                  IN  ListResult(entities,
                                 {Basename(entities[i].file_path) : i \in 1..Len(entities)},
                                 calls)

\* label = header or f"Page {page}"; header is what find_best_heading gives for
\* the neighbours the index returns for the chunk's page and file
EnrichOne(hit, env) ==
    [label |-> IF hit.file_path \in env.headed THEN <<"Article 1">> ELSE <<"Page ", hit.page>>,
     content |-> Strip(hit.content),
     page |-> hit.page,
     file_path |-> hit.file_path]

enrich_retrieval_results(results, env) == [i \in 1..Len(results) |-> EnrichOne(results[i], env)]

\* not raw_chunks or not all_sources
NothingFound(r) == (IF r.isList THEN r.list = <<>> ELSE r.text = <<>>) \/ r.sources = {}

RetrievalRaise(e, calls) ==
    [raised |-> TRUE, exc |-> e, chunks |-> <<>>, sources |-> {}, calls |-> calls]

RetrievalReturn(chunks, sources, calls) ==
    [raised |-> FALSE, exc |-> NoExc, chunks |-> chunks, sources |-> sources, calls |-> calls]

\* (mutant) the exception leaves search_all_collections
SearchExceptPropagates(e, calls) == RetrievalRaise(e, calls)

\* except Exception as e: ... return [], []
SearchExcept(e, calls) == RetrievalReturn(<<>>, {}, calls)

\* (mutant) every enriched chunk is returned
TopChunksAll(enriched_chunks, k) == enriched_chunks

\* enriched_chunks[:k]
TopChunks(enriched_chunks, k) == SubSeq(enriched_chunks, 1, Min(Len(enriched_chunks), k))

\* (mutant) the store is searched whether it was initialized or not
MustRaiseNever(initialized) == FALSE

\* if not vectorstore_initialized or not client
MustRaise(initialized) == ~initialized

VectorStoreNotInitialized ==
    Exc("RuntimeError", <<"Vector store not initialized. Call initialize_vectorstore() first.">>)

\* sources is the set unique_top_sources; list() fixes its order
search_all_collections(env, k, initialized) ==
    IF MustRaise(initialized) THEN RetrievalRaise(VectorStoreNotInitialized, <<>>)
    ELSE LET r == search_legal_knowledge(env, k * MANAGER_FACTOR)
         IN  IF NothingFound(r) THEN RetrievalReturn(<<>>, {}, r.calls)
             ELSE IF env.query_error THEN SearchExcept(env.exc, r.calls \o <<"query">>)
             ELSE LET enriched == enrich_retrieval_results(r.list, env)
                      top_chunks == TopChunks(enriched, k)
                  IN  RetrievalReturn(top_chunks,
                          {Basename(top_chunks[i].file_path) : i \in 1..Len(top_chunks)},
                          r.calls \o [i \in 1..Len(r.list) |-> "query"])

\* the orders list(a_set) may give
Orderings(S) ==
    {f \in [1..Cardinality(S) -> S] : \A i, j \in 1..Cardinality(S) : i # j => f[i] # f[j]}

\* chunk.get("display_page_number", "?"): an enriched chunk has no such key
DisplayPageNumber(chunk) ==
    IF "display_page_number" \in DOMAIN chunk THEN chunk.display_page_number ELSE "?"

optimize_context_for_llm(chunks, max_chunks) ==
    LET top_chunks == SubSeq(chunks, 1, Min(Len(chunks), max_chunks))
    IN  [i \in 1..Len(top_chunks) |->
            [file_name |-> Basename(top_chunks[i].file_path),
             pdf_page |-> DisplayPageNumber(top_chunks[i]),
             content |-> Strip(top_chunks[i].content)]]

\* (mutant) the sources are joined whether there are any or not
SourcesTextJoined(actual_sources) == actual_sources

\* ", ".join(actual_sources) if actual_sources else "No sources available"
SourcesText(actual_sources) ==
    IF actual_sources # <<>> THEN actual_sources ELSE <<"No sources available">>

-----------------------------------------------------------------------------
(* generate_response: what the body computes                               *)

NoPreviousConversation == <<"No previous conversation">>

\* (mutant) the cache is consulted whatever the history
UsesCacheAlways(chat_history) == TRUE

\* not chat_history or chat_history == "No previous conversation"
UsesCache(chat_history) == chat_history = <<>> \/ chat_history = NoPreviousConversation

\* how the function body is left
Return(answer, sources, status) ==
    [kind |-> "return", answer |-> answer, sources |-> sources, status |-> status, exc |-> NoExc]

Raise(e) == [kind |-> "raise", answer |-> <<>>, sources |-> <<>>, status |-> "", exc |-> e]

NoExit == [kind |-> "none", answer |-> <<>>, sources |-> <<>>, status |-> "", exc |-> NoExc]

\* return cached_response, [], "success"
CacheHitExit(cached_response) == Return(cached_response, <<>>, "success")

\* except Exception as e (the outermost handler)
OuterExcept(e, actual_sources) ==
    Return(<<"An unexpected error occurred: ">> \o e.msg, actual_sources, "error")

\* (mutant) a failure of the model call is not caught
GenerateExceptPropagates(e, actual_sources) == Raise(e)

\* except Exception as e around client.models.generate_content
GenerateExcept(e, actual_sources) ==
    Return(<<"Failed to start content generation: ">> \o e.msg, actual_sources, "error")

\* except Exception as e around the reading of the response
ParseExcept(e, actual_sources) ==
    Return(<<"An error occurred: ">> \o e.msg, actual_sources, "error")

\* (mutant) the limit check is off by one
OverTokenLimitOffByOne(prompt_token_count) == prompt_token_count > PROMPT_TOKEN_LIMIT + 1

\* prompt_token_count > PROMPT_TOKEN_LIMIT
OverTokenLimit(prompt_token_count) == prompt_token_count > PROMPT_TOKEN_LIMIT

TokenLimitExit(prompt_token_count, actual_sources) ==
    Return(<<"Error: Input prompt exceeds token limit (", ToString(prompt_token_count), "/",
             ToString(PROMPT_TOKEN_LIMIT), ").">>, actual_sources, "error")

BlockedMessage ==
    <<"Content was blocked. Please rephrase your legal query with more appropriate terminology.">>

TruncationWarning ==
    <<"\n\n**[WARNING: The response was truncated because it exceeded the maximum output length. Please ask a more specific follow-up question if needed.]**">>

SafetyWarning == <<"\n\n**[WARNING: The response was partially blocked by safety filters.]**">>

\* (mutant) the truncation warning is appended whatever the finish reason
WithWarningAlways(text, finish_reason) == text \o TruncationWarning

\* the text after the if / elif chain on finish_reason
WithWarning(text, finish_reason) ==
    IF finish_reason = "MAX_TOKENS" THEN text \o TruncationWarning
    ELSE IF finish_reason = "SAFETY" THEN text \o SafetyWarning
    ELSE text

\* a response of generate_content: no candidates, a candidate without content
\* parts, a candidate whose first part has no text (text is None), or text
NoResponse == [kind |-> "none", text |-> <<>>, finish_reason |-> ""]

\* (mutant) a response without candidates or content parts is read as empty text
ParseResponseNoBlock(response) ==
    IF response.kind = "text_none"
    THEN [kind |-> "raise", text |-> <<>>,
          exc |-> Exc("AttributeError", <<"'NoneType' object has no attribute 'strip'">>)]
    ELSE [kind |-> "text", text |-> WithWarning(Strip(response.text), response.finish_reason),
          exc |-> NoExc]

\* the try block that reads the response: the text, the blocked message or an exception
ParseResponse(response) ==
    IF response.kind = "no_candidates" \/ response.kind = "no_parts"
    THEN [kind |-> "blocked", text |-> <<>>, exc |-> NoExc]
    ELSE IF response.kind = "text_none"
    THEN [kind |-> "raise", text |-> <<>>,
          exc |-> Exc("AttributeError", <<"'NoneType' object has no attribute 'strip'">>)]
    ELSE [kind |-> "text", text |-> WithWarning(Strip(response.text), response.finish_reason),
          exc |-> NoExc]

\* (mutant) an empty text is cached too
ShouldCacheAnyText(cache_key, full_response_text) == Truthy(cache_key)

\* (mutant) the result is cached whether or not a key was computed
ShouldCacheAlways(cache_key, full_response_text) == TRUE

\* if cache_key and full_response_text
ShouldCache(cache_key, full_response_text) == Truthy(cache_key) /\ full_response_text # <<>>

GenAINotInitialized ==
    Exc("RuntimeError", <<"GenAI client not initialized. Call initialize_genai_client() first.">>)

\* the retry decorator: retry_if_not_exception_type(HTTPException), stop_after_attempt(3)
ShouldRetry(ex, attempt_number) ==
    /\ ex.kind = "raise"
    /\ ex.exc.type # "HTTPException"
    /\ attempt_number < STOP_AFTER_ATTEMPT

\* initialize_vectorstore: the flag afterwards, and whether it raised
initialize_vectorstore(initialized, load_ok) ==
    IF ~initialized
    THEN IF load_ok THEN [initialized |-> TRUE, raised |-> FALSE]
         ELSE [initialized |-> FALSE, raised |-> TRUE]
    ELSE [initialized |-> initialized, raised |-> FALSE]

-----------------------------------------------------------------------------
(* Inputs                                                                  *)

\* <<query, case_data>>: the first two differ in case and leading blanks only
Requests == {<<<<"a">>, <<>>>>, <<<<" ", "A">>, <<>>>>, <<<<"a">>, <<"b">>>>}

ChatHistories == {<<>>, NoPreviousConversation, <<"h">>}

Exceptions == {Exc("ResourceExhausted", <<"429 quota exceeded">>),
               Exc("HTTPException", <<"400 bad request">>)}

H(id, distance, file_path, content) ==
    [id |-> id, distance |-> distance, file_path |-> file_path, content |-> content, page |-> "7"]

MainHitSeqs ==
    {<<>>,
     <<H(1, 95, <<"d1", "A.pdf">>, <<"c">>), H(2, 70, <<"d2", "A.pdf">>, <<" ", "c">>)>>,
     <<H(1, 95, <<"d1", "A.pdf">>, <<"c">>), H(2, 90, <<"d1", "A.pdf">>, <<>>),
       H(3, 70, <<"d1", "B.pdf">>, <<"c">>), H(4, 60, <<"d1", "A.pdf">>, <<"c">>)>>,
     <<H(1, 95, <<"d1", "A.pdf">>, <<"c">>), H(2, 90, <<"d1", "A.pdf">>, <<"c">>),
       H(3, 70, <<"d1", "A.pdf">>, <<"c">>), H(4, 60, <<"d1", "B.pdf">>, <<"c">>)>>}

RetrievalEnvs ==
    {[collection_exists |-> ce, embed_error |-> ee, search_error |-> se, exc |-> x,
      hits |-> h, query_error |-> qe, headed |-> hd] :
        ce \in BOOLEAN, ee \in BOOLEAN, se \in BOOLEAN, x \in Exceptions,
        h \in MainHitSeqs, qe \in BOOLEAN, hd \in {{}, {<<"d1", "A.pdf">>}}}

TokenCounts == {PROMPT_TOKEN_LIMIT, PROMPT_TOKEN_LIMIT + 1}

FinishReasons == {"STOP", "MAX_TOKENS", "SAFETY", "RECITATION", "OTHER"}

Responses ==
    {[kind |-> k, text |-> <<>>, finish_reason |-> ""] : k \in {"no_candidates", "no_parts", "text_none"}}
    \cup {[kind |-> "text", text |-> <<"a", " ">>, finish_reason |-> f] : f \in FinishReasons}
    \cup {[kind |-> "text", text |-> <<" ">>, finish_reason |-> "STOP"]}

-----------------------------------------------------------------------------
(* State machine                                                           *)

\* last is "none", "init" or "search"; loaded: some initialize_vectorstore call
\* has loaded the collection; init_raised: the last initialize_vectorstore raised;
\* failed_inits: some initialize_vectorstore call has raised; the rest describes
\* the last search_all_collections call
SrIdle ==
    [last |-> "none", loaded |-> FALSE, init_raised |-> FALSE, failed_inits |-> FALSE,
     k |-> 0, index_hits |-> None, raised |-> FALSE, exc |-> NoExc, chunks |-> <<>>,
     sources |-> <<>>, calls |-> <<>>]

CkIdle == [phase |-> "idle", query1 |-> <<>>, case_data1 |-> <<>>, key1 |-> <<>>,
           query2 |-> <<>>, case_data2 |-> <<>>, key2 |-> <<>>]

\* no request is in flight
NoTasks == <<>>

NoArgs == [query |-> <<>>, chat_history |-> <<>>, case_data |-> <<>>]

NoPrompt == [sources_text |-> <<>>, context |-> <<>>]

\* full_response_text = "", actual_sources = [], cache_key = None
InitLocals ==
    [cache_key |-> None, context |-> <<>>, actual_sources |-> <<>>, prompt |-> NoPrompt,
     response |-> NoResponse, full_response_text |-> <<>>]

InitLog ==
    [cache_read |-> FALSE, cache_hit |-> FALSE, cache_before |-> <<>>, read_at |-> 0,
     cache_written |-> FALSE, retrieval_calls |-> 0, count_calls |-> 0,
     counted |-> None, generate_calls |-> 0, caught |-> NoExc, caught_in |-> "",
     index_hits |-> None, retrieval_failed |-> FALSE]

\* put.size is len(RESPONSE_CACHE) after the assignment, before the cleanup;
\* get.found and get.timestamp describe the entry the get met
NoCacheOp == [last |-> "none", prev |-> "none",
              put |-> [key |-> <<>>, response |-> <<>>, t |-> 0, size |-> 0],
              get |-> [key |-> <<>>, t |-> 0, found |-> FALSE, timestamp |-> 0,
                       response |-> <<>>, ret |-> None]]

InitMain ==
    /\ RESPONSE_CACHE = <<>>
    /\ now = 0
    /\ vectorstore_initialized = FALSE
    /\ genai_client = FALSE
    /\ app = "starting"
    /\ pc = "idle"
    /\ args = NoArgs
    /\ locals = InitLocals
    /\ exit = NoExit
    /\ attempt = 0
    /\ result = NoExit
    /\ log = InitLog
    /\ cacheOp = NoCacheOp
    /\ sr = SrIdle
    /\ ck = CkIdle
    /\ tasks = NoTasks
    /\ loop = 0

Init == InitMain /\ rr = RrIdle

callVars == <<pc, args, locals, exit, attempt, result, log>>

\* main.lifespan up to its yield: a failed initialization is logged and startup goes on
Lifespan ==
    /\ app = "starting"
    /\ \E load_ok \in BOOLEAN, genai_ok \in BOOLEAN :
        /\ vectorstore_initialized' =
               initialize_vectorstore(vectorstore_initialized, load_ok).initialized
        /\ genai_client' = genai_ok
    /\ app' = "serving"
    /\ UNCHANGED <<RESPONSE_CACHE, now, callVars, cacheOp, rr, sr, ck, tasks, loop>>

\* the clock advances
Deltas == {CACHE_TTL_MINUTES - 1, CACHE_TTL_MINUTES}

Tick ==
    /\ \E d \in Deltas : now + d <= MaxTime /\ now' = now + d
    /\ UNCHANGED <<RESPONSE_CACHE, vectorstore_initialized, genai_client, app, callVars,
                   cacheOp, rr, sr, ck, tasks, loop>>

\* a request handler awaits generate_response(query, chat_history, case_data)
Call ==
    /\ app = "serving"
    /\ pc = "idle"
    /\ \E r \in Requests, h \in ChatHistories :
        args' = [query |-> r[1], chat_history |-> h, case_data |-> r[2]]
    /\ locals' = InitLocals
    /\ attempt' = 1
    /\ log' = [InitLog EXCEPT !.cache_before = RESPONSE_CACHE]
    /\ exit' = NoExit
    /\ result' = NoExit
    /\ pc' = "cache_check"
    /\ UNCHANGED <<RESPONSE_CACHE, now, vectorstore_initialized, genai_client, app, cacheOp, rr, sr, ck, tasks, loop>>

\* "Check cache first (skip for queries with chat history)"
CacheCheck ==
    /\ pc = "cache_check"
    /\ IF UsesCache(args.chat_history)
       THEN LET cache_key == _generate_cache_key(args.query, args.case_data)
                g == _get_cached_response(RESPONSE_CACHE, cache_key, now)
            IN  /\ RESPONSE_CACHE' = g.cache
                /\ locals' = [locals EXCEPT !.cache_key = Some(cache_key)]
                /\ log' = [log EXCEPT !.cache_read = TRUE, !.cache_hit = Truthy(g.ret),
                                      !.read_at = now]
                /\ IF Truthy(g.ret)
                   THEN exit' = CacheHitExit(g.ret.val) /\ pc' = "exit"
                   ELSE exit' = exit /\ pc' = "retrieve"
       ELSE /\ pc' = "retrieve"
            /\ UNCHANGED <<RESPONSE_CACHE, locals, log, exit>>
    /\ UNCHANGED <<now, vectorstore_initialized, genai_client, app, args, attempt, result,
                   cacheOp, rr, sr, ck, tasks, loop>>

\* whether the collection was missing or a call to the embedding service or
\* the index failed during the retrieval
RetrievalFailed(env, calls) ==
    \/ ~env.collection_exists
    \/ env.embed_error
    \/ env.search_error
    \/ env.query_error /\ "query" \in {calls[i] : i \in 1..Len(calls)}

\* how many hits client.search returned, None when it was not called or failed
IndexHits(env, calls) ==
    IF "search" \in {calls[i] : i \in 1..Len(calls)} /\ ~env.search_error
    THEN Some(Len(env.hits)) ELSE None

\* "Retrieve and Optimize Context", and the prompt
Retrieve ==
    /\ pc = "retrieve"
    /\ \E env \in RetrievalEnvs :
        LET r == search_all_collections(env, RETRIEVAL_K, vectorstore_initialized)
        IN  IF r.raised
            THEN /\ exit' = OuterExcept(r.exc, locals.actual_sources)
                 /\ pc' = "exit"
                 /\ locals' = locals
                 /\ log' = [log EXCEPT !.retrieval_calls = @ + 1, !.caught = r.exc,
                                       !.caught_in = "retrieval"]
            ELSE /\ \E actual_sources \in Orderings(r.sources) :
                        locals' = [locals EXCEPT
                            !.context = r.chunks,
                            !.actual_sources = actual_sources,
                            !.prompt = [sources_text |-> SourcesText(actual_sources),
                                        context |-> optimize_context_for_llm(r.chunks, MAX_CHUNKS)]]
                 /\ pc' = "get_client"
                 /\ exit' = exit
                 /\ log' = [log EXCEPT !.retrieval_calls = @ + 1,
                                       !.index_hits = IndexHits(env, r.calls),
                                       !.retrieval_failed = RetrievalFailed(env, r.calls)]
    /\ UNCHANGED <<RESPONSE_CACHE, now, vectorstore_initialized, genai_client, app, args,
                   attempt, result, cacheOp, rr, sr, ck, tasks, loop>>

\* client = get_genai_client()
GetClient ==
    /\ pc = "get_client"
    /\ IF genai_client
       THEN pc' = "count_tokens" /\ UNCHANGED <<exit, log>>
       ELSE /\ exit' = OuterExcept(GenAINotInitialized, locals.actual_sources)
            /\ pc' = "exit"
            /\ log' = [log EXCEPT !.caught = GenAINotInitialized, !.caught_in = "client"]
    /\ UNCHANGED <<RESPONSE_CACHE, now, vectorstore_initialized, genai_client, app, args,
                   locals, attempt, result, cacheOp, rr, sr, ck, tasks, loop>>

\* client.models.count_tokens and the limit check; a failure of the count is swallowed
CountTokens ==
    /\ pc = "count_tokens"
    /\ \/ \E e \in Exceptions :
            /\ log' = [log EXCEPT !.count_calls = @ + 1]
            /\ pc' = "generate"
            /\ exit' = exit
       \/ \E n \in TokenCounts :
            /\ log' = [log EXCEPT !.count_calls = @ + 1, !.counted = Some(n)]
            /\ IF OverTokenLimit(n)
               THEN exit' = TokenLimitExit(n, locals.actual_sources) /\ pc' = "exit"
               ELSE exit' = exit /\ pc' = "generate"
    /\ UNCHANGED <<RESPONSE_CACHE, now, vectorstore_initialized, genai_client, app, args,
                   locals, attempt, result, cacheOp, rr, sr, ck, tasks, loop>>

\* client.models.generate_content
Generate ==
    /\ pc = "generate"
    /\ \/ \E e \in Exceptions :
            /\ exit' = GenerateExcept(e, locals.actual_sources)
            /\ pc' = "exit"
            /\ locals' = locals
            /\ log' = [log EXCEPT !.generate_calls = @ + 1, !.caught = e,
                                  !.caught_in = "generate"]
       \/ \E response \in Responses :
            /\ locals' = [locals EXCEPT !.response = response]
            /\ pc' = "parse"
            /\ exit' = exit
            /\ log' = [log EXCEPT !.generate_calls = @ + 1]
    /\ UNCHANGED <<RESPONSE_CACHE, now, vectorstore_initialized, genai_client, app, args,
                   attempt, result, cacheOp, rr, sr, ck, tasks, loop>>

\* reading candidates[0], its text and its finish reason
Parse ==
    /\ pc = "parse"
    /\ LET p == ParseResponse(locals.response)
       IN  IF p.kind = "text"
           THEN /\ locals' = [locals EXCEPT !.full_response_text = p.text]
                /\ pc' = "cache_write"
                /\ UNCHANGED <<exit, log>>
           ELSE IF p.kind = "blocked"
           THEN /\ exit' = Return(BlockedMessage, locals.actual_sources, "error")
                /\ pc' = "exit"
                /\ UNCHANGED <<locals, log>>
           ELSE /\ exit' = ParseExcept(p.exc, locals.actual_sources)
                /\ pc' = "exit"
                /\ locals' = locals
                /\ log' = [log EXCEPT !.caught = p.exc, !.caught_in = "parse"]
    /\ UNCHANGED <<RESPONSE_CACHE, now, vectorstore_initialized, genai_client, app, args,
                   attempt, result, cacheOp, rr, sr, ck, tasks, loop>>

\* "Cache the complete response if applicable", and the final return
CacheWrite ==
    /\ pc = "cache_write"
    /\ IF ShouldCache(locals.cache_key, locals.full_response_text)
       THEN /\ RESPONSE_CACHE' = _cache_response(RESPONSE_CACHE, locals.cache_key.val,
                                                 locals.full_response_text, now)
            /\ log' = [log EXCEPT !.cache_written = TRUE]
       ELSE UNCHANGED <<RESPONSE_CACHE, log>>
    /\ exit' = Return(locals.full_response_text, locals.actual_sources, "success")
    /\ pc' = "exit"
    /\ UNCHANGED <<now, vectorstore_initialized, genai_client, app, args, locals, attempt,
                   result, cacheOp, rr, sr, ck, tasks, loop>>

\* the retry decorator sees how the body was left
RetryWrapper ==
    /\ pc = "exit"
    /\ IF ShouldRetry(exit, attempt)
       THEN /\ attempt' = attempt + 1
            /\ locals' = InitLocals
            /\ exit' = NoExit
            /\ pc' = "cache_check"
            /\ result' = result
       ELSE /\ result' = exit
            /\ pc' = "done"
            /\ UNCHANGED <<attempt, locals, exit>>
    /\ UNCHANGED <<RESPONSE_CACHE, now, vectorstore_initialized, genai_client, app, args,
                   log, cacheOp, rr, sr, ck, tasks, loop>>

\* the caller has its result (or the exception)
Complete ==
    /\ pc = "done"
    /\ pc' = "idle"
    /\ args' = NoArgs
    /\ locals' = InitLocals
    /\ exit' = NoExit
    /\ attempt' = 0
    /\ result' = NoExit
    /\ log' = InitLog
    /\ UNCHANGED <<RESPONSE_CACHE, now, vectorstore_initialized, genai_client, app, cacheOp, rr, sr, ck, tasks, loop>>

Next ==
    \/ Lifespan
    \/ Tick
    \/ Call
    \/ CacheCheck
    \/ Retrieve
    \/ GetClient
    \/ CountTokens
    \/ Generate
    \/ Parse
    \/ CacheWrite
    \/ RetryWrapper
    \/ Complete

Spec == Init /\ [][Next]_vars

-----------------------------------------------------------------------------
(* The reranker applied to one input                                       *)

InitRerank == InitMain /\ rr \in RrInputs

Rerank ==
    /\ rr.phase = "input"
    /\ rr' = [rr EXCEPT !.phase = "done",
                        !.out = _apply_mmr_diversity_reranking(rr.hits, rr.k),
                        !.after = ScoredInPlace(rr.hits, rr.k)]
    /\ UNCHANGED <<RESPONSE_CACHE, now, vectorstore_initialized, genai_client, app, callVars,
                   cacheOp, sr, ck, tasks, loop>>

NextRerank == Rerank

SpecRerank == InitRerank /\ [][NextRerank]_vars

-----------------------------------------------------------------------------
(* The functions of vectorstore_manager applied directly, as the retrieval *)
(* test script and the request handlers call them                          *)

\* n hits in descending order of similarity; every m-th is of the second document
LongHits(n, m) ==
    [i \in 1..n |-> H(i, 96 - i, IF i % m = 0 THEN <<"d1", "B.pdf">> ELSE <<"d1", "A.pdf">>,
                      <<"c">>)]

SearchHitSeqs ==
    MainHitSeqs
    \cup {<<H(1, 95, <<"d1", "A.pdf">>, <<"c">>), H(2, 90, <<"d2", "A.pdf">>, <<"c">>),
            H(3, 70, <<"d1", "B.pdf">>, <<"c">>)>>}
    \cup {LongHits(n, m) : n \in {6, 11}, m \in {2, 3, 20}}

SearchEnvs ==
    {[collection_exists |-> ce, embed_error |-> ee, search_error |-> se, exc |-> x,
      hits |-> h, query_error |-> qe, headed |-> hd] :
        ce \in BOOLEAN, ee \in BOOLEAN, se \in BOOLEAN, x \in Exceptions,
        h \in SearchHitSeqs, qe \in BOOLEAN, hd \in {{}, {<<"d1", "A.pdf">>}}}

InitStore == InitMain /\ rr = RrIdle

InitializeVectorstore ==
    /\ \E load_ok \in BOOLEAN :
        LET i == initialize_vectorstore(vectorstore_initialized, load_ok)
        IN  /\ vectorstore_initialized' = i.initialized
            /\ sr' = [sr EXCEPT !.last = "init",
                                !.init_raised = i.raised,
                                !.failed_inits = @ \/ i.raised,
                                !.loaded = @ \/ (i.initialized /\ ~vectorstore_initialized)]
    /\ UNCHANGED <<RESPONSE_CACHE, now, genai_client, app, callVars, cacheOp, rr, ck, tasks,
                   loop>>

SearchAllCollections ==
    /\ \E env \in SearchEnvs, k \in 1..MaxSearchK :
        LET r == search_all_collections(env, k, vectorstore_initialized)
        IN  \E sources \in Orderings(r.sources) :
                sr' = [sr EXCEPT !.last = "search", !.k = k,
                                 !.index_hits = IndexHits(env, r.calls),
                                 !.raised = r.raised, !.exc = r.exc, !.chunks = r.chunks,
                                 !.sources = sources, !.calls = r.calls]
    /\ UNCHANGED <<RESPONSE_CACHE, now, vectorstore_initialized, genai_client, app, callVars,
                   cacheOp, rr, ck, tasks, loop>>

NextStore ==
    \/ InitializeVectorstore
    \/ SearchAllCollections

SpecStore == InitStore /\ [][NextStore]_vars

-----------------------------------------------------------------------------
(* The cache functions applied directly, on tables of every size up to the *)
(* ceiling: a table of n entries written during the first minute           *)

Prefilled(n) ==
    [i \in 1..n |-> [key |-> Md5Hex(<<"q", ToString(i), "|">>), response |-> <<"a">>,
                     timestamp |-> 0]]

\* a full table whose first entry is one a put of TestKeys overwrites
FullTable ==
    <<[key |-> _generate_cache_key(<<"a">>, <<>>), response |-> <<"a">>, timestamp |-> 0]>>
    \o Prefilled(MAX_CACHE_SIZE - 1)

Tables == {<<>>, Prefilled(MAX_CACHE_SIZE - 1), FullTable}

TestKeys == {_generate_cache_key(r[1], r[2]) : r \in Requests}

Answers == {<<"a">>, <<>>}

InitCache ==
    /\ RESPONSE_CACHE \in Tables
    /\ now = 0
    /\ vectorstore_initialized = FALSE
    /\ genai_client = FALSE
    /\ app = "starting"
    /\ pc = "idle"
    /\ args = NoArgs
    /\ locals = InitLocals
    /\ exit = NoExit
    /\ attempt = 0
    /\ result = NoExit
    /\ log = InitLog
    /\ cacheOp = NoCacheOp
    /\ rr = RrIdle
    /\ sr = SrIdle
    /\ ck = CkIdle
    /\ tasks = NoTasks
    /\ loop = 0

CacheGet ==
    /\ \E key \in TestKeys :
        LET g == _get_cached_response(RESPONSE_CACHE, key, now)
            found == HasKey(RESPONSE_CACHE, key)
            e == IF found THEN RESPONSE_CACHE[CacheIndex(RESPONSE_CACHE, key)]
                 ELSE [key |-> key, response |-> <<>>, timestamp |-> 0]
        IN  /\ RESPONSE_CACHE' = g.cache
            /\ cacheOp' = [cacheOp EXCEPT
                   !.prev = cacheOp.last, !.last = "get",
                   !.get = [key |-> key, t |-> now, found |-> found,
                            timestamp |-> e.timestamp, response |-> e.response,
                            ret |-> g.ret]]
    /\ UNCHANGED <<now, vectorstore_initialized, genai_client, app, callVars, rr, sr, ck, tasks, loop>>

CachePut ==
    /\ \E key \in TestKeys, response \in Answers :
        /\ RESPONSE_CACHE' = _cache_response(RESPONSE_CACHE, key, response, now)
        /\ cacheOp' = [cacheOp EXCEPT
               !.prev = cacheOp.last, !.last = "put",
               !.put = [key |-> key, response |-> response, t |-> now,
                        size |-> Len(CacheSet(RESPONSE_CACHE, key, response, now))]]
    /\ UNCHANGED <<now, vectorstore_initialized, genai_client, app, callVars, rr, sr, ck, tasks, loop>>

NextCache ==
    \/ CacheGet
    \/ CachePut
    \/ Tick

SpecCache == InitCache /\ [][NextCache]_vars

-----------------------------------------------------------------------------
(* _generate_cache_key applied to two (query, case_data) pairs             *)

\* the characters of the texts: a letter in both cases, a space, the separator
KeyChars == {"a", "A", " ", "|"}

TextsUpTo(n) == UNION {[1..m -> KeyChars] : m \in 0..n}

KeyInputs ==
    {[phase |-> "input", query1 |-> q1, case_data1 |-> c1, key1 |-> <<>>,
      query2 |-> q2, case_data2 |-> c2, key2 |-> <<>>] :
        q1 \in TextsUpTo(MaxKeyLen), q2 \in TextsUpTo(MaxKeyLen),
        c1 \in TextsUpTo(1), c2 \in TextsUpTo(1)}

InitKey ==
    /\ RESPONSE_CACHE = <<>>
    /\ now = 0
    /\ vectorstore_initialized = FALSE
    /\ genai_client = FALSE
    /\ app = "starting"
    /\ pc = "idle"
    /\ args = NoArgs
    /\ locals = InitLocals
    /\ exit = NoExit
    /\ attempt = 0
    /\ result = NoExit
    /\ log = InitLog
    /\ cacheOp = NoCacheOp
    /\ rr = RrIdle
    /\ sr = SrIdle
    /\ ck \in KeyInputs
    /\ tasks = NoTasks
    /\ loop = 0

GenerateCacheKeys ==
    /\ ck.phase = "input"
    /\ ck' = [ck EXCEPT !.phase = "done",
                        !.key1 = _generate_cache_key(ck.query1, ck.case_data1),
                        !.key2 = _generate_cache_key(ck.query2, ck.case_data2)]
    /\ UNCHANGED <<RESPONSE_CACHE, now, vectorstore_initialized, genai_client, app, callVars,
                   cacheOp, rr, sr, tasks, loop>>

NextKey == GenerateCacheKeys

SpecKey == InitKey /\ [][NextKey]_vars

-----------------------------------------------------------------------------
(* Several requests in flight on one event loop.  A task is the coroutine  *)
(* of one generate_response call, reduced to its cache operations and its  *)
(* network calls; the loop runs a task until it suspends or returns.       *)

\* (mutant) the coroutine awaits each of its network calls
SuspendsAtNetworkCalls(at) == at \in {"retrieve", "count_tokens", "generate"}

\* (mutant) the coroutine can be suspended between the assignment and the cleanup
SuspendsInsidePut(at) == at = "cache_cleanup"

\* whether the coroutine yields to the event loop before the step at this
\* position: the body holds no await, and the cache functions are plain defs
Suspends(at) == FALSE

\* in_place: the key was in the table when this task assigned it
PendingTask ==
    [pc |-> "pending", cache_key |-> None, wrote |-> FALSE, in_place |-> FALSE]

TaskIds == 1..MaxTasks

LoopTables == {<<>>, FullTable}

InitLoop ==
    /\ RESPONSE_CACHE \in LoopTables
    /\ now = 0
    /\ vectorstore_initialized = TRUE
    /\ genai_client = TRUE
    /\ app = "serving"
    /\ pc = "idle"
    /\ args = NoArgs
    /\ locals = InitLocals
    /\ exit = NoExit
    /\ attempt = 0
    /\ result = NoExit
    /\ log = InitLog
    /\ cacheOp = NoCacheOp
    /\ rr = RrIdle
    /\ sr = SrIdle
    /\ ck = CkIdle
    /\ tasks = [t \in TaskIds |-> PendingTask]
    /\ loop = 0

\* the loop runs no task, or it runs this one
CanRun(t) == loop = 0 \/ loop = t

\* the task moves on; the loop is free again when the task returned or suspends
Advance(t, task) ==
    /\ tasks' = [tasks EXCEPT ![t] = task]
    /\ loop' = IF task.pc = "done" \/ Suspends(task.pc) THEN 0 ELSE t

loopRest ==
    <<now, vectorstore_initialized, genai_client, app, callVars, cacheOp, rr, sr, ck>>

\* the handler awaits generate_response(...): the coroutine starts
TaskStart ==
    /\ \E t \in TaskIds :
        /\ tasks[t].pc = "pending" /\ CanRun(t)
        /\ \E r \in Requests, h \in ChatHistories :
            Advance(t, [tasks[t] EXCEPT
                !.pc = "cache_check",
                !.cache_key = IF UsesCache(h) THEN Some(_generate_cache_key(r[1], r[2]))
                              ELSE None])
    /\ UNCHANGED <<RESPONSE_CACHE, loopRest>>

TaskCacheCheck ==
    /\ \E t \in TaskIds :
        /\ tasks[t].pc = "cache_check" /\ CanRun(t)
        /\ IF Truthy(tasks[t].cache_key)
           THEN LET g == _get_cached_response(RESPONSE_CACHE, tasks[t].cache_key.val, now)
                IN  /\ RESPONSE_CACHE' = g.cache
                    /\ Advance(t, [tasks[t] EXCEPT
                           !.pc = IF Truthy(g.ret) THEN "done" ELSE "retrieve"])
           ELSE /\ RESPONSE_CACHE' = RESPONSE_CACHE
                /\ Advance(t, [tasks[t] EXCEPT !.pc = "retrieve"])
    /\ UNCHANGED loopRest

\* search_all_collections returned, or raised
TaskRetrieve ==
    /\ \E t \in TaskIds :
        /\ tasks[t].pc = "retrieve" /\ CanRun(t)
        /\ \E raised \in BOOLEAN :
            Advance(t, [tasks[t] EXCEPT !.pc = IF raised THEN "done" ELSE "count_tokens"])
    /\ UNCHANGED <<RESPONSE_CACHE, loopRest>>

\* count_tokens: within the limit (or failed), or over it
TaskCountTokens ==
    /\ \E t \in TaskIds :
        /\ tasks[t].pc = "count_tokens" /\ CanRun(t)
        /\ \E n \in TokenCounts :
            Advance(t, [tasks[t] EXCEPT
                !.pc = IF OverTokenLimit(n) THEN "done" ELSE "generate"])
    /\ UNCHANGED <<RESPONSE_CACHE, loopRest>>

\* generate_content and the reading of its response: a text, or an error return
TaskGenerate ==
    /\ \E t \in TaskIds :
        /\ tasks[t].pc = "generate" /\ CanRun(t)
        /\ \E ok \in BOOLEAN :
            Advance(t, [tasks[t] EXCEPT !.pc = IF ok THEN "cache_write" ELSE "done"])
    /\ UNCHANGED <<RESPONSE_CACHE, loopRest>>

\* _cache_response, its first statement: RESPONSE_CACHE[cache_key] = (response, now)
TaskCacheWrite ==
    /\ \E t \in TaskIds :
        /\ tasks[t].pc = "cache_write" /\ CanRun(t)
        /\ IF ShouldCache(tasks[t].cache_key, <<"a">>)
           THEN /\ RESPONSE_CACHE' = CacheSet(RESPONSE_CACHE, tasks[t].cache_key.val, <<"a">>, now)
                /\ Advance(t, [tasks[t] EXCEPT
                       !.pc = "cache_cleanup", !.wrote = TRUE,
                       !.in_place = HasKey(RESPONSE_CACHE, tasks[t].cache_key.val)])
           ELSE /\ RESPONSE_CACHE' = RESPONSE_CACHE
                /\ Advance(t, [tasks[t] EXCEPT !.pc = "done"])
    /\ UNCHANGED loopRest

\* _cache_response, the cleanup that follows the assignment
TaskCacheCleanup ==
    /\ \E t \in TaskIds :
        /\ tasks[t].pc = "cache_cleanup" /\ CanRun(t)
        /\ RESPONSE_CACHE' = CacheCleanup(RESPONSE_CACHE)
        /\ Advance(t, [tasks[t] EXCEPT !.pc = "done"])
    /\ UNCHANGED loopRest

NextLoop ==
    \/ TaskStart
    \/ TaskCacheCheck
    \/ TaskRetrieve
    \/ TaskCountTokens
    \/ TaskGenerate
    \/ TaskCacheWrite
    \/ TaskCacheCleanup
    \/ Tick

SpecLoop == InitLoop /\ [][NextLoop]_vars

-----------------------------------------------------------------------------
(* Properties                                                              *)

\* the call in flight has left the function body
Left == pc \in {"exit", "done"}

\* what the body returned, or the caller got
Outcome == IF pc = "done" THEN result ELSE exit

\* the key of the call in flight
CallKey == _generate_cache_key(args.query, args.case_data)

\* the table held, when the call read it, an entry for its key younger than the TTL
FreshBefore ==
    \E i \in 1..Len(log.cache_before) :
        /\ log.cache_before[i].key = CallKey
        /\ log.read_at - log.cache_before[i].timestamp < 60

FreshResponse ==
    log.cache_before[CHOOSE i \in 1..Len(log.cache_before) :
                         log.cache_before[i].key = CallKey].response

\* the entries of the table that the call in flight has added or changed
Added ==
    {RESPONSE_CACHE[i] : i \in 1..Len(RESPONSE_CACHE)}
        \ {log.cache_before[i] : i \in 1..Len(log.cache_before)}

\* C1: every call of generate_response ends with a return of (answer, sources,
\* status), status being "success" or "error"; no failure of the cache lookup,
\* of retrieval, of the client lookup, of token counting, of the model call or
\* of the reading of the response leaves the body, or reaches the caller, as
\* an exception.
C1_NeverRaises ==
    Left => /\ Outcome.kind = "return"
            /\ Outcome.status \in {"success", "error"}
            /\ attempt = 1

\* a call in which token counting failed and then the reading of the response failed
C1_Witness ==
    /\ pc = "done"
    /\ log.count_calls = 1 /\ ~log.counted.some
    /\ log.caught_in = "parse"
    /\ result.status = "error"

\* C2 (as stated): a call whose chat_history is any non-empty string neither
\* reads nor writes the response cache.
C2_AnyHistoryBypasses ==
    (pc # "idle" /\ args.chat_history # <<>>) => ~log.cache_read /\ ~log.cache_written

\* C2 (amended): a call whose chat_history is a non-empty string other than
\* "No previous conversation" neither reads nor writes the response cache and
\* leaves the table as it was; it runs retrieval, and it runs the model call
\* unless an earlier step ended the call with status "error", even when the
\* table holds a fresh answer for the same (query, case_data).
C2_HistoryBypassesCache ==
    (pc # "idle" /\ args.chat_history \notin {<<>>, <<"No previous conversation">>})
        => /\ ~log.cache_read /\ ~log.cache_written
           /\ RESPONSE_CACHE = log.cache_before
           /\ Left => log.retrieval_calls = 1
           /\ (Left /\ log.generate_calls = 0) => Outcome.status = "error"

\* a call with history completed by the model although a fresh answer was cached
C2_Witness ==
    /\ pc = "done"
    /\ args.chat_history = <<"h">>
    /\ \E i \in 1..Len(RESPONSE_CACHE) :
          RESPONSE_CACHE[i].key = CallKey /\ now - RESPONSE_CACHE[i].timestamp < 60
    /\ log.retrieval_calls = 1 /\ log.generate_calls = 1
    /\ result.status = "success"

\* occurrences of a source among the hits
Occurrences(hits, file_path) ==
    Cardinality({i \in 1..Len(hits) : hits[i].file_path = file_path})

\* max(2, floor(k / 4))
Cap(k) == IF k \div 4 > 2 THEN k \div 4 ELSE 2

CapHolds ==
    \A i \in 1..Len(rr.out) : Occurrences(rr.out, rr.out[i].file_path) <= Cap(rr.k)

\* C3 (as stated): for every hits and every k >= 1 the output of the reranker
\* holds no file_path more than max(2, floor(k/4)) times.
C3_CapForEveryInput == rr.phase = "done" => CapHolds

\* C3 (amended): for every hits and every k >= 1 with len(hits) > k the output
\* of the reranker holds no file_path more than max(2, floor(k/4)) times (with
\* len(hits) <= k the input is returned as it is, whatever its sources).
C3_CapWhenReranked == (rr.phase = "done" /\ Len(rr.hits) > rr.k) => CapHolds

\* a source with more hits than the cap, of which the output has as many as the cap
C3_Witness ==
    /\ rr.phase = "done"
    /\ Len(rr.hits) > rr.k
    /\ \E i \in 1..Len(rr.out) :
          /\ Occurrences(rr.hits, rr.out[i].file_path) > Cap(rr.k)
          /\ Occurrences(rr.out, rr.out[i].file_path) = Cap(rr.k)

\* C4 (as stated): a model call that fails with an error other than a
\* validation error (HTTPException) is made again, and status "error" is
\* returned for it only after the third attempt has failed.
C4_ThreeAttempts ==
    (pc = "done" /\ log.caught_in = "generate" /\ log.caught.type # "HTTPException")
        => log.generate_calls = 3

\* the tokens of the text s
Tokens(s) == {s[i] : i \in 1..Len(s)}

\* C5 (as stated): the answer returned for an exception raised inside
\* generate_response holds nothing of the exception's own message.
C5_NoLeak ==
    (pc = "done" /\ log.caught_in # "") => Tokens(result.answer) \cap Tokens(log.caught.msg) = {}

\* C6: a get that follows a put of the same key directly, less than the TTL
\* later, the put not having brought the table over its ceiling, returns
\* exactly the answer put.
C6_GetAfterPut ==
    ( /\ cacheOp.last = "get" /\ cacheOp.prev = "put"
      /\ cacheOp.get.key = cacheOp.put.key
      /\ cacheOp.get.t - cacheOp.put.t < 60
      /\ cacheOp.put.size <= 500 )
        => cacheOp.get.ret = [some |-> TRUE, val |-> cacheOp.put.response]

\* a get 59 minutes after the put that replaced another answer for the key
C6_Witness ==
    /\ cacheOp.last = "get" /\ cacheOp.prev = "put"
    /\ cacheOp.get.key = cacheOp.put.key
    /\ cacheOp.get.t - cacheOp.put.t = 59
    /\ cacheOp.put.size = 500
    /\ cacheOp.put.response = <<>>
    /\ cacheOp.get.ret = [some |-> TRUE, val |-> <<>>]

\* C7: a get for a key whose entry is TTL (60 minutes) old or older returns
\* absent and removes the entry, whatever the size of the table; a get returns
\* an entry only if the key has one, younger than the TTL, and then returns
\* its answer and leaves the table alone.
C7_Staleness ==
    cacheOp.last = "get" =>
        /\ (cacheOp.get.found /\ cacheOp.get.t - cacheOp.get.timestamp >= 60)
              => /\ ~cacheOp.get.ret.some
                 /\ \A i \in 1..Len(RESPONSE_CACHE) : RESPONSE_CACHE[i].key # cacheOp.get.key
        /\ cacheOp.get.ret.some
              => /\ cacheOp.get.found
                 /\ cacheOp.get.t - cacheOp.get.timestamp < 60
                 /\ cacheOp.get.ret.val = cacheOp.get.response
                 /\ \E i \in 1..Len(RESPONSE_CACHE) :
                       /\ RESPONSE_CACHE[i].key = cacheOp.get.key
                       /\ RESPONSE_CACHE[i].timestamp = cacheOp.get.timestamp

\* an entry exactly 60 minutes old purged from a table at its ceiling
C7_Witness ==
    /\ cacheOp.last = "get"
    /\ cacheOp.get.found /\ cacheOp.get.t - cacheOp.get.timestamp = 60
    /\ ~cacheOp.get.ret.some
    /\ Len(RESPONSE_CACHE) = 499

\* C8: with empty chat_history and a fresh entry for the key of (query,
\* case_data) in the table, generate_response returns (cached answer, [],
\* "success"), calls neither retrieval nor the token counter nor the model, and
\* leaves the table as it was, the entry's created_at included.
C8_CacheHit ==
    (pc \notin {"idle", "cache_check"} /\ args.chat_history = <<>> /\ FreshBefore)
        => /\ log.retrieval_calls = 0 /\ log.count_calls = 0 /\ log.generate_calls = 0
           /\ RESPONSE_CACHE = log.cache_before
           /\ Left
           /\ Outcome.kind = "return"
           /\ Outcome.answer = FreshResponse
           /\ Outcome.sources = <<>>
           /\ Outcome.status = "success"

\* a hit on an entry written 59 minutes before
C8_Witness ==
    /\ pc = "done"
    /\ args.chat_history = <<>>
    /\ FreshBefore
    /\ log.read_at = 59
    /\ result.answer = FreshResponse
    /\ Len(result.answer) = 2

\* the call in flight read the cache and missed, and has returned success with
\* the answer a as the only thing it added to the table, under its key
AddedByMiss(a) ==
    /\ Left
    /\ log.cache_read /\ ~log.cache_hit
    /\ Outcome.kind = "return" /\ Outcome.status = "success"
    /\ \A e \in Added : e.key = CallKey /\ e.response = a

\* C9 (as stated): an entry is added only by a call that had empty
\* chat_history, missed the cache and returns "success", the value stored
\* being the answer returned; no call returning "error" adds one.
C9_AddedOnlyByEmptyHistory ==
    (pc # "idle" /\ Added # {}) => args.chat_history = <<>> /\ AddedByMiss(Outcome.answer)

\* C9 (amended): an entry is added only by a call whose chat_history was empty
\* or "No previous conversation", that missed the cache and returns "success",
\* the value stored being the answer returned (warning included); no call
\* returning "error" adds one.
C9_AddedOnlyByMiss ==
    (pc # "idle" /\ Added # {})
        => /\ args.chat_history \in {<<>>, <<"No previous conversation">>}
           /\ AddedByMiss(Outcome.answer)

\* a truncated answer stored with its warning, replacing an expired entry
C9_Witness ==
    /\ pc = "done"
    /\ Added # {}
    /\ \E i \in 1..Len(log.cache_before) : log.cache_before[i].key = CallKey
    /\ Len(result.answer) = 2
    /\ result.answer[1] = "a"

\* C10: generate_content is called only after a token count of at most
\* PROMPT_TOKEN_LIMIT (16000) or a failed count; a count above the limit ends
\* the call with status "error" and no call of generate_content.
C10_TokenLimit ==
    /\ log.generate_calls > 0
          => /\ log.count_calls = 1
             /\ log.counted.some => log.counted.val <= 16000
    /\ (log.counted.some /\ log.counted.val > 16000)
          => /\ log.generate_calls = 0
             /\ pc \in {"exit", "done"}
             /\ Outcome.kind = "return" /\ Outcome.status = "error"

\* a count of 16001 that ended the call
C10_Witness ==
    /\ pc = "done"
    /\ log.counted.some /\ log.counted.val = 16001
    /\ result.status = "error"
    /\ log.generate_calls = 0

\* a count that failed, after which the model was called
C10_WitnessFailedCount ==
    /\ pc = "done"
    /\ log.count_calls = 1 /\ ~log.counted.some
    /\ log.generate_calls = 1

\* C11: a response with no candidates, or whose first candidate has no content
\* parts, ends the call with status "error" and the message that asks to
\* rephrase the query; nothing is raised and nothing is written to the cache.
C11_Blocked ==
    (Left /\ locals.response.kind \in {"no_candidates", "no_parts"})
        => /\ Outcome.kind = "return"
           /\ Outcome.status = "error"
           /\ Outcome.answer = <<"Content was blocked. Please rephrase your legal query with more appropriate terminology.">>
           /\ ~log.cache_written
           /\ Added = {}

\* a cacheable call whose model response had a candidate without content parts
C11_Witness ==
    /\ pc = "done"
    /\ locals.response.kind = "no_parts"
    /\ log.cache_read /\ ~log.cache_hit
    /\ log.generate_calls = 1
    /\ result.status = "error"

\* C12 (as stated): content whose finish reason is MAX_TOKENS, SAFETY or
\* RECITATION gives status "success" and the model's text followed by a
\* warning: the truncation warning for MAX_TOKENS, the content-filtering
\* warning for SAFETY and for RECITATION.
C12_WarningAppended ==
    (pc = "done" /\ locals.response.kind = "text"
                /\ locals.response.finish_reason \in {"MAX_TOKENS", "SAFETY", "RECITATION"})
        => /\ result.status = "success"
           /\ Len(result.answer) = Len(Strip(locals.response.text)) + 1
           /\ SubSeq(result.answer, 1, Len(result.answer) - 1) = Strip(locals.response.text)
           /\ result.answer[Len(result.answer)] =
                 (IF locals.response.finish_reason = "MAX_TOKENS"
                  THEN "\n\n**[WARNING: The response was truncated because it exceeded the maximum output length. Please ask a more specific follow-up question if needed.]**"
                  ELSE "\n\n**[WARNING: The response was partially blocked by safety filters.]**")

\* answer is text without its leading and trailing whitespace
Trimmed(text, answer) ==
    \E i \in 1..Len(text) + 1 : \E j \in 0..Len(text) :
        /\ answer = SubSeq(text, i, j)
        /\ \A n \in 1..Len(text) : (n < i \/ n > j) => text[n] = " "
        /\ answer # <<>> => answer[1] # " " /\ answer[Len(answer)] # " "

\* the distinct file names of the chunks
SourceNames(chunks) == {chunks[i].file_path[2] : i \in 1..Len(chunks)}

\* a call that was not answered from the cache, got chunks, and got model
\* content with finish reason STOP
MissWithChunksAndStop ==
    /\ pc = "done"
    /\ ~log.cache_hit
    /\ locals.context # <<>>
    /\ locals.response.kind = "text" /\ locals.response.finish_reason = "STOP"

\* the sources returned are the distinct file names of the retrieved chunks
SourcesOfChunks ==
    /\ {result.sources[i] : i \in 1..Len(result.sources)} = SourceNames(locals.context)
    /\ Len(result.sources) = Cardinality(SourceNames(locals.context))

\* C13 (as stated): on a cache miss where retrieval returned chunks and the
\* model returned content with finish reason STOP, the call returns "success",
\* the answer is the model's text with no modification at all, and the sources
\* are the distinct source names of the retrieved chunks.
C13_Unmodified ==
    MissWithChunksAndStop
        => /\ result.status = "success"
           /\ result.answer = locals.response.text
           /\ SourcesOfChunks

\* C13 (amended): ... the answer is the model's text without its leading and
\* trailing whitespace and otherwise unchanged (no warning appended), and the
\* sources are the distinct source names of the retrieved chunks, each once.
C13_Trimmed ==
    MissWithChunksAndStop
        => /\ result.status = "success"
           /\ Trimmed(locals.response.text, result.answer)
           /\ SourcesOfChunks

\* chunks of two sources, and a model text that ended with a space
C13_Witness ==
    /\ MissWithChunksAndStop
    /\ locals.response.text = <<"a", " ">>
    /\ result.answer = <<"a">>
    /\ Len(locals.context) = 3
    /\ Len(result.sources) = 2

\* C14: for every hits and every k >= 1 the reranker returns at most
\* min(k, len(hits)) items, every returned item is one of the input hits, and
\* no input hit is returned more than once.
C14_SubsetOfInput ==
    rr.phase = "done"
        => /\ Len(rr.out) <= (IF rr.k <= Len(rr.hits) THEN rr.k ELSE Len(rr.hits))
           /\ \A i \in 1..Len(rr.out) : \E j \in 1..Len(rr.hits) :
                 /\ rr.out[i] = rr.after[j]
                 /\ rr.out[i].id = rr.hits[j].id
                 /\ rr.out[i].distance = rr.hits[j].distance
                 /\ rr.out[i].file_path = rr.hits[j].file_path
                 /\ rr.out[i].content = rr.hits[j].content
           /\ \A i, j \in 1..Len(rr.out) : i # j => rr.out[i].id # rr.out[j].id

\* four hits reranked for k = 3: three distinct hits of the input come back
C14_Witness ==
    /\ rr.phase = "done"
    /\ rr.k = 3 /\ Len(rr.hits) = 4
    /\ Len(rr.out) = 3
    /\ rr.out[1].id # 1

\* C15: with len(hits) <= k the reranker returns exactly the input sequence:
\* same items, same order, none dropped or reordered to diversify sources.
C15_ShortInputUnchanged ==
    (rr.phase = "done" /\ Len(rr.hits) <= rr.k) => rr.out = rr.hits /\ rr.after = rr.hits

\* as many hits as k, all of one source and not in order of similarity
C15_Witness ==
    /\ rr.phase = "done"
    /\ rr.k = 3 /\ Len(rr.hits) = 3
    /\ \A i \in 1..3 : rr.hits[i].file_path = <<"d1", "A.pdf">>
    /\ rr.hits[1].distance < rr.hits[2].distance
    /\ rr.out = rr.hits

\* the entries of a table
Entries(cache) == {cache[i] : i \in 1..Len(cache)}

\* a put that left more than 500 entries after its assignment
EvictingPut == cacheOp' # cacheOp /\ cacheOp'.last = "put" /\ cacheOp'.put.size > 500

\* the table after the assignment of the put: the old entries but the one of
\* the same key, and the entry written
AfterAssignment ==
    {e \in Entries(RESPONSE_CACHE) : e.key # cacheOp'.put.key}
    \cup {[key |-> cacheOp'.put.key, response |-> cacheOp'.put.response,
           timestamp |-> cacheOp'.put.t]}

\* C16: a put that leaves more than MAX_CACHE_SIZE (500) entries removes
\* exactly the 20 entries of the oldest created_at and keeps the entry just
\* written; hence the table never holds more than 500 entries once a put has
\* completed.
C16_EvictOldest ==
    /\ [](Len(RESPONSE_CACHE) <= 500)
    /\ [][EvictingPut =>
            /\ Cardinality(AfterAssignment) = cacheOp'.put.size
            /\ Entries(RESPONSE_CACHE') \subseteq AfterAssignment
            /\ Len(RESPONSE_CACHE') = Cardinality(Entries(RESPONSE_CACHE'))
            /\ Cardinality(AfterAssignment \ Entries(RESPONSE_CACHE')) = 20
            /\ \E i \in 1..Len(RESPONSE_CACHE') :
                  /\ RESPONSE_CACHE'[i].key = cacheOp'.put.key
                  /\ RESPONSE_CACHE'[i].response = cacheOp'.put.response
                  /\ RESPONSE_CACHE'[i].timestamp = cacheOp'.put.t
            /\ \A e \in AfterAssignment \ Entries(RESPONSE_CACHE') :
                  \A f \in Entries(RESPONSE_CACHE') : e.timestamp <= f.timestamp
       ]_vars

\* the put of a 501st key after the first entry of the table was rewritten:
\* the rewritten entry, the first in order of insertion, is not among the 20 removed
C16_Witness ==
    /\ cacheOp.last = "put"
    /\ cacheOp.put.size = 501
    /\ Len(RESPONSE_CACHE) = 481
    /\ RESPONSE_CACHE[1].timestamp > 0
    /\ RESPONSE_CACHE[481].key = cacheOp.put.key

\* C17 (as stated): when loading the vector index or initializing the model
\* client failed during startup, the application does not reach the serving
\* state, and no request is handled by a process whose index failed to load.
C17_NoServingAfterFailedInit ==
    (app = "serving" \/ pc # "idle") => vectorstore_initialized /\ genai_client

\* C18: while no initialize_vectorstore call has succeeded the store is not
\* initialized, and every search_all_collections call then raises its
\* RuntimeError before any call to the embedding service or the index; a
\* failed initialize_vectorstore leaves the store uninitialized.
C18_FailsUntilInitialized ==
    /\ ~sr.loaded => ~vectorstore_initialized
    /\ (sr.last = "search" /\ ~vectorstore_initialized)
          => /\ sr.raised
             /\ sr.exc.type = "RuntimeError"
             /\ sr.exc.msg = <<"Vector store not initialized. Call initialize_vectorstore() first.">>
             /\ sr.calls = <<>>
             /\ sr.chunks = <<>> /\ sr.sources = <<>>
    /\ (sr.last = "init" /\ sr.init_raised) => ~vectorstore_initialized

\* a search that failed after an initialize_vectorstore call had failed
C18_Witness ==
    /\ sr.last = "search"
    /\ sr.failed_inits /\ ~sr.loaded
    /\ sr.raised
    /\ sr.calls = <<>>

\* a search that reached the index once an initialize_vectorstore call had
\* succeeded after a failed one
C18_WitnessInitialized ==
    /\ sr.last = "search"
    /\ sr.failed_inits /\ sr.loaded
    /\ ~sr.raised
    /\ sr.chunks # <<>>

\* C19: when the index returns zero hits, search_all_collections returns
\* empty chunks and sources without raising, the sources placeholder of the
\* prompt is "No sources available", and the model is still called (unless the
\* client is missing or the prompt is over the token limit).
C19_NoHitsStillAsksModel ==
    (log.index_hits.some /\ log.index_hits.val = 0)
        => /\ log.caught_in # "retrieval"
           /\ locals.context = <<>> /\ locals.actual_sources = <<>>
           /\ locals.prompt.sources_text = <<"No sources available">>
           /\ pc \notin {"idle", "cache_check", "retrieve"}
           /\ (Left /\ log.generate_calls = 0)
                 => \/ ~genai_client
                    \/ log.counted.some /\ log.counted.val > 16000

\* a call answered by the model although the index returned no hit
C19_Witness ==
    /\ pc = "done"
    /\ log.index_hits.some /\ log.index_hits.val = 0
    /\ log.generate_calls = 1
    /\ result.status = "success"
    /\ result.sources = <<>>

\* C20: search_all_collections(query, case_data, k) returns at most k chunks,
\* and its sources are exactly the distinct basenames of the file paths of the
\* chunks returned, each once.
C20_TopKAndSources ==
    (sr.last = "search" /\ ~sr.raised)
        => /\ Len(sr.chunks) <= sr.k
           /\ {sr.sources[i] : i \in 1..Len(sr.sources)}
                 = {sr.chunks[i].file_path[2] : i \in 1..Len(sr.chunks)}
           /\ \A i, j \in 1..Len(sr.sources) : i # j => sr.sources[i] # sr.sources[j]

\* three hits for k = 2: the two chunks returned are of A.pdf in two
\* directories, which is one source
C20_Witness ==
    /\ sr.last = "search" /\ ~sr.raised
    /\ sr.k = 2
    /\ sr.index_hits.some /\ sr.index_hits.val = 3
    /\ Len(sr.chunks) = 2
    /\ sr.chunks[1].file_path # sr.chunks[2].file_path
    /\ sr.sources = <<"A.pdf">>

\* the reference procedure: how many of the selected hits are of a source
RefCount(selected, file_path) ==
    Cardinality({i \in 1..Len(selected) : selected[i].file_path = file_path})

\* twice 0.5 * similarity + 0.5 * bonus, in hundredths
RefScore(selected, c) ==
    c.distance + (IF RefCount(selected, c.file_path) = 0 THEN 150
                  ELSE IF RefCount(selected, c.file_path) = 1 THEN 100
                  ELSE IF RefCount(selected, c.file_path) = 2 THEN 50
                  ELSE 20)

\* the candidates below the cap, and the earliest of the best of them
RefBest(selected, remaining, k) ==
    LET ok == {i \in 1..Len(remaining) :
                  RefCount(selected, remaining[i].file_path) < Cap(k)}
    IN  IF ok = {} THEN 0
        ELSE CHOOSE i \in ok :
                \A j \in ok :
                    \/ RefScore(selected, remaining[j]) < RefScore(selected, remaining[i])
                    \/ RefScore(selected, remaining[j]) = RefScore(selected, remaining[i]) /\ j >= i

RECURSIVE RefLoop(_, _, _)
RefLoop(selected, remaining, k) ==
    IF Len(selected) >= k \/ remaining = <<>> THEN selected
    ELSE LET b == RefBest(selected, remaining, k)
         IN  IF b = 0 THEN selected
             ELSE RefLoop(Append(selected, remaining[b]),
                          SubSeq(remaining, 1, b - 1) \o SubSeq(remaining, b + 1, Len(remaining)),
                          k)

\* the hits in descending order of similarity, equal ones in input order
RECURSIVE RefSorted(_)
RefSorted(hits) ==
    IF hits = <<>> THEN <<>>
    ELSE LET i == CHOOSE i \in 1..Len(hits) :
                    \A j \in 1..Len(hits) :
                        \/ hits[j].distance < hits[i].distance
                        \/ hits[j].distance = hits[i].distance /\ j >= i
         IN  <<hits[i]>> \o RefSorted(SubSeq(hits, 1, i - 1) \o SubSeq(hits, i + 1, Len(hits)))

Reference(hits, k) == RefLoop(<<Head(RefSorted(hits))>>, Tail(RefSorted(hits)), k)

Ids(hits) == [i \in 1..Len(hits) |-> hits[i].id]

\* C21 (as stated): for len(hits) > k the output of the reranker is that of
\* the reference procedure: seed of the highest similarity, then the best
\* candidate below the cap by 0.5*similarity + 0.5*bonus, ties to the earlier
\* one, each selection raising the count of its source by exactly one.
C21_EqualsReference ==
    (rr.phase = "done" /\ Len(rr.hits) > rr.k) => Ids(rr.out) = Ids(Reference(rr.hits, rr.k))

\* C22: with len(hits) > k the first hit of the output is a hit of the
\* highest similarity of the input, the earliest of them in input order.
C22_SeedIsMostSimilar ==
    (rr.phase = "done" /\ Len(rr.hits) > rr.k)
        => /\ rr.out # <<>>
           /\ \E i \in 1..Len(rr.hits) :
                 /\ rr.out[1].id = rr.hits[i].id
                 /\ \A j \in 1..Len(rr.hits) : rr.hits[j].distance <= rr.hits[i].distance
                 /\ \A j \in 1..(i - 1) : rr.hits[j].distance < rr.hits[i].distance

\* two hits of the highest similarity, neither the first of the input: the
\* earlier of the two is the seed
C22_Witness ==
    /\ rr.phase = "done" /\ Len(rr.hits) > rr.k
    /\ Len(rr.hits) >= 3
    /\ rr.hits[1].distance < rr.hits[2].distance
    /\ rr.hits[2].distance = rr.hits[3].distance
    /\ \A j \in 1..Len(rr.hits) : rr.hits[j].distance <= rr.hits[2].distance
    /\ rr.hits[2].file_path # rr.hits[3].file_path
    /\ rr.out[1].id = 2

\* C23 (as stated): no source contributes more than max(2, floor(k/4)) of the
\* chunks search_all_collections(query, case_data, k) returns, whatever hits
\* the index returned.
C23_CapForRequestedK ==
    (sr.last = "search" /\ ~sr.raised)
        => \A i \in 1..Len(sr.chunks) :
              Cardinality({j \in 1..Len(sr.chunks) :
                              sr.chunks[j].file_path = sr.chunks[i].file_path}) <= Cap(sr.k)

\* C24 (as stated): the header of every chunk of the prompt's evidence context
\* shows the locator retrieval produced for the chunk (its heading label, else
\* its page number), never the placeholder of a missing value.
C24_HeaderShowsLocator ==
    \A i \in 1..Len(locals.prompt.context) :
        /\ locals.prompt.context[i].pdf_page # "?"
        /\ \/ <<locals.prompt.context[i].pdf_page>> = locals.context[i].label
           \/ locals.prompt.context[i].pdf_page = locals.context[i].page

\* a text without its letter case and surrounding whitespace
Norm(s) == Strip(Lower(s))

\* C25 (as stated): two (query, case_data) pairs have the same cache key only
\* if their queries are equal and their case_data are equal, up to letter case
\* and surrounding whitespace.
C25_SameKeySamePair ==
    (ck.phase = "done" /\ ck.key1 = ck.key2)
        => /\ Norm(ck.query1) = Norm(ck.query2)
           /\ Norm(ck.case_data1) = Norm(ck.case_data2)

\* C26: generate_response never updates a cache entry in place: when a task
\* assigns key K, no entry for K is in the table (its own get found K absent
\* or purged it as expired), also with several requests for K in flight.
C26_NeverInPlace ==
    \A t \in 1..Len(tasks) : tasks[t].wrote => ~tasks[t].in_place

\* two requests in flight for one key have both written it, the second after
\* its get had purged the entry of the first
C26_Witness ==
    /\ Len(tasks) >= 2
    /\ tasks[1].pc = "done" /\ tasks[2].pc = "done"
    /\ tasks[1].wrote /\ tasks[2].wrote
    /\ tasks[1].cache_key = tasks[2].cache_key
    /\ now >= 60

\* a step of task t that is a cache get or the start of a cache put
CacheOpStarts(t) ==
    /\ tasks[t].pc \in {"cache_check", "cache_write"}
    /\ tasks'[t].pc # tasks[t].pc

\* C27: cache operations of different requests in flight never overlap: no
\* task starts a get or a put while the put of another one is between its
\* assignment and its cleanup, and no get or put starts on a table that holds
\* more than 500 entries.
C27_NoOverlap ==
    [][\A t \in 1..Len(tasks) :
          CacheOpStarts(t)
              => /\ Len(RESPONSE_CACHE) <= 500
                 /\ \A u \in 1..Len(tasks) : u # t => tasks[u].pc # "cache_cleanup"
      ]_vars

\* a task has read the cache after the put of another task had evicted 20 entries
C27_Witness ==
    /\ Len(tasks) >= 2
    /\ \E t, u \in 1..Len(tasks) :
          /\ t # u
          /\ tasks[t].pc = "done" /\ tasks[t].wrote
          /\ tasks[u].pc = "retrieve" /\ Truthy(tasks[u].cache_key)
    /\ Len(RESPONSE_CACHE) = 481

\* C28 (as stated): generate_response has a suspension point at each network
\* call (retrieval, token counting, model generation): a task that waits on
\* one does not hold the event loop, so another request in flight can run.
C28_SuspendsAtNetworkCalls ==
    \A t \in 1..Len(tasks) :
        tasks[t].pc \in {"retrieve", "count_tokens", "generate"} => loop # t

\* C29: once the store is initialized search_all_collections never raises; a
\* missing collection or a failed embedding, vector search or neighbour query
\* gives ([], []) as zero hits do, and generate_response goes on to the model
\* call as for an empty result (unless the client is missing or the prompt is
\* over the token limit).
C29_RetrievalFailuresAreEmpty ==
    /\ (vectorstore_initialized /\ log.retrieval_calls > 0) => log.caught_in # "retrieval"
    /\ log.retrieval_failed
          => /\ locals.context = <<>> /\ locals.actual_sources = <<>>
             /\ locals.prompt.sources_text = <<"No sources available">>
             /\ locals.prompt.context = <<>>
             /\ pc \notin {"idle", "cache_check", "retrieve"}
             /\ (Left /\ log.generate_calls = 0)
                   => \/ ~genai_client
                      \/ log.counted.some /\ log.counted.val > 16000

\* a call answered by the model after a neighbour query of the enrichment failed
C29_Witness ==
    /\ pc = "done"
    /\ log.retrieval_failed
    /\ log.index_hits.some /\ log.index_hits.val > 0
    /\ log.generate_calls = 1
    /\ result.status = "success"
    /\ result.sources = <<>>

\* C30 (as stated): every source name listed in the prompt's AVAILABLE SOURCES,
\* and returned in sources after a fresh generation, has at least one chunk of
\* that source in the EVIDENCE BASE text of the prompt.
C30_SourcesHaveEvidence ==
    /\ \A i \in 1..Len(locals.actual_sources) :
          \E j \in 1..Len(locals.prompt.context) :
              locals.prompt.context[j].file_name = locals.actual_sources[i]
    /\ (pc = "done" /\ log.generate_calls = 1 /\ result.status = "success")
          => \A i \in 1..Len(result.sources) :
                \E j \in 1..Len(locals.prompt.context) :
                    locals.prompt.context[j].file_name = result.sources[i]

====
